---- MODULE Spec2Model ----
(***************************************************************************)
(* Model of package pllb (util/llbutil/pllb): a facade that serializes     *)
(* every interaction with BuildKit's llb package behind one global mutex   *)
(* (gmu), and a process-wide cache (withincludCache) that deduplicates     *)
(* "local source with include patterns" nodes built by State.WithInclude.  *)
(*                                                                         *)
(* Strings are sequences of byte values (Go strings are byte sequences).   *)
(* llb nodes are opaque to the package; they are modelled as the term the  *)
(* library was asked to build: [op, name, opts, in].                       *)
(***************************************************************************)
EXTENDS Integers, Sequences, FiniteSets, TLC

(***************************************************************************)
(* Bounds of the model.                                                    *)
(***************************************************************************)
\* number of concurrent callers (goroutines)
NProcs == 2
\* facade calls plus filesystem changes in one behaviour
MaxEvents == 4
\* largest inode number of the modelled filesystem
MaxInode == 2
\* longest include pattern given to fixIncl on its own
MaxPatLen == 3
\* longest include list given to fixIncl on its own
MaxInclLen == 2
\* longest include list given to getSharedKeyHintFromInclude on its own
MaxKeyIncl == 1

(***************************************************************************)
(* Program constants.                                                      *)
(***************************************************************************)
\* '.'  (state.go:167)
Dot == 46
\* '*'  (state.go:168, 170)
Star == 42
\* '/', the separator filepath.Base splits on (state.go:169)
Slash == 47
\* b := make([]byte, 8)  (state.go:148)
InodeBytes == 8

Procs == 1 .. NProcs

(***************************************************************************)
(* Sequence helpers.                                                       *)
(***************************************************************************)
RECURSIVE Concat(_)
Concat(ss) == IF ss = <<>> THEN <<>> ELSE Head(ss) \o Concat(Tail(ss))

SeqsUpTo(S, n) == UNION {[1 .. k -> S] : k \in 0 .. n}

HasNul(s) == \E i \in 1 .. Len(s) : s[i] = 0

(***************************************************************************)
(* fixIncl and filepath.Base.                                              *)
(***************************************************************************)
\* filepath.Base "Strip trailing slashes" loop.
RECURSIVE StripTrailingSlashes(_)
StripTrailingSlashes(path) ==
    IF Len(path) > 0 /\ path[Len(path)] = Slash
    THEN StripTrailingSlashes(SubSeq(path, 1, Len(path) - 1))
    ELSE path

\* filepath.Base "Find the last element" loop: index of the last separator, 0 if none.
LastSlash(path) ==
    LET idx == {i \in 1 .. Len(path) : path[i] = Slash}
    IN  IF idx = {} THEN 0 ELSE CHOOSE i \in idx : \A j \in idx : j <= i

\* filepath.Base on a non-Windows host.
Base(path) ==
    IF path = <<>> THEN <<Dot>>
    ELSE LET p == StripTrailingSlashes(path)
             e == SubSeq(p, LastSlash(p) + 1, Len(p))
         IN  IF e = <<>> THEN <<Slash>> ELSE e

\* The result of a Go call that may panic.
Panicked == [panic |-> TRUE, v |-> <<>>]
Returned(v) == [panic |-> FALSE, v |-> v]

\* One iteration of the loop of fixIncl. inc[:len(inc)-1] panics (slice bounds
\* out of range) when inc is empty.
fixOne(inc) ==
    IF inc = <<Dot>> THEN Returned(<<Dot, Slash, Star>>)
    ELSE IF Base(inc) = <<Dot>>
         THEN IF Len(inc) - 1 < 0 THEN Panicked
              ELSE Returned(SubSeq(inc, 1, Len(inc) - 1) \o <<Star>>)
         ELSE Returned(inc)

RECURSIVE fixIncl(_)
fixIncl(incl) ==
    IF incl = <<>> THEN Returned(<<>>)
    ELSE LET h == fixOne(Head(incl))
             t == fixIncl(Tail(incl))
         IN  IF h.panic \/ t.panic THEN Panicked
             ELSE Returned(<<h.v>> \o t.v)

(***************************************************************************)
(* The identity probe and the cache key.                                   *)
(***************************************************************************)
\* What stat reports for one path: no such file (or no permission), or an inode.
NoFile == [exists |-> FALSE, ino |-> 0]
Inode(i) == [exists |-> TRUE, ino |-> i]
FileStates == {NoFile} \cup {Inode(i) : i \in 1 .. MaxInode}

\* (a failed stat reported as a number of its own)
getInodeOrMarker(f, path) ==
    IF HasNul(path) \/ path \notin DOMAIN f THEN MaxInode + 1
    ELSE IF f[path].exists THEN f[path].ino ELSE MaxInode + 1

\* getInodeBestEffort: 0 when stat fails. syscall.Stat rejects a path holding
\* a NUL byte (EINVAL); a path the filesystem map does not list does not exist.
getInodeBestEffort(f, path) ==
    IF HasNul(path) \/ path \notin DOMAIN f THEN 0
    ELSE IF f[path].exists THEN f[path].ino ELSE 0

\* binary.LittleEndian.PutUint64(b, inode)
RECURSIVE LittleEndian(_, _)
LittleEndian(n, k) == IF k = 0 THEN <<>> ELSE <<n % 256>> \o LittleEndian(n \div 256, k - 1)

\* (the most significant byte first)
PutUint64BigEndian(n) ==
    [i \in 1 .. InodeBytes |-> LittleEndian(n, InodeBytes)[InodeBytes + 1 - i]]
PutUint64(n) == LittleEndian(n, InodeBytes)

\* (only the path is hashed)
addToHashPathOnly(f, path) == path
\* addToHash: the bytes one call writes into the hash.
addToHash(f, path) == path \o PutUint64(getInodeBestEffort(f, path))

\* (every distinct include path hashed once, in an order of its own)
RECURSIVE SeqOfSet(_)
SeqOfSet(S) == IF S = {} THEN <<>>
               ELSE LET x == CHOOSE y \in S : TRUE IN <<x>> \o SeqOfSet(S \ {x})
HashInputOfSet(f, name, incl) ==
    LET paths == SeqOfSet({incl[i] : i \in 1 .. Len(incl)})
    IN  addToHash(f, name) \o Concat([i \in 1 .. Len(paths) |-> addToHash(f, paths[i])])
\* Everything written into the hash by getSharedKeyHintFromInclude.
HashInput(f, name, incl) ==
    addToHash(f, name) \o Concat([i \in 1 .. Len(incl) |-> addToHash(f, incl[i])])

\* sha1: modelled as a collision-free digest (the digest stands for its input).
Sum(bytes) == bytes

\* hex.EncodeToString
HexDigit(n) == IF n < 10 THEN 48 + n ELSE 87 + n
EncodeToString(bytes) ==
    Concat([i \in 1 .. Len(bytes) |-> <<HexDigit(bytes[i] \div 16), HexDigit(bytes[i] % 16)>>])

getSharedKeyHintFromInclude(f, name, incl) == EncodeToString(Sum(HashInput(f, name, incl)))

(***************************************************************************)
(* Values: llb nodes, options, and the wrappers State, ExecState and       *)
(* FileAction.                                                             *)
(***************************************************************************)
Node(op, name, opts, in) == [op |-> op, name |-> name, opts |-> opts, in |-> in]
NoNode == Node("none", <<>>, <<>>, <<>>)

\* type State struct { st; localName; localOpts }, and the wrappers ExecState
\* {est} and FileAction {fia}, told apart by kind.
Val(kind, st, localName, localOpts) ==
    [kind |-> kind, st |-> st, localName |-> localName, localOpts |-> localOpts]
NoVal == Val("none", NoNode, <<>>, <<>>)

\* (a State that records the name of its node)
StateNamed(st) == Val("State", st, st.name, <<>>)
\* State{st: st}: a State with no recorded local name.
StateOf(st) == Val("State", st, <<>>, <<>>)
ExecStateOf(est) == Val("ExecState", est, <<>>, <<>>)
FileActionOf(fia) == Val("FileAction", fia, <<>>, <<>>)

\* llb.LocalOption values: two options a caller may pass to Local, and the two
\* WithInclude adds.
LocalOption(id) == [k |-> "LocalOption", v |-> <<<<id>>>>]
IncludePatterns(incl) == [k |-> "IncludePatterns", v |-> incl]
SharedKeyHint(key) == [k |-> "SharedKeyHint", v |-> <<key>>]

\* The llb package: every function returns the node it was asked for.
llbLocal(name, opts) == Node("Local", name, opts, <<>>)
llbSource(op) == Node(op, <<>>, <<>>, <<>>)
llbApply(op, in) == Node(op, <<>>, <<>>, in)

(***************************************************************************)
(* What the callers pass in.                                               *)
(***************************************************************************)
\* "ctx"
LocalNames == {<<99, 116, 120>>}
OptLists == {<<>>, <<LocalOption(1), LocalOption(2)>>}
\* ["."], [""], []
InclArgs == {<< <<Dot>> >>, << <<>> >>, <<>>}
\* the paths WithInclude can probe with these arguments: "ctx" and "./*"
FsPaths == LocalNames \cup {<<Dot, Slash, Star>>}
\* a raw llb.State built outside the facade
RawNode == llbSource("Raw")

VARIABLES
    gmu,              \* the global mutex: TRUE when locked
    withincludCache,  \* map[string]State
    pc,               \* where each caller is: idle, lock, body, build, defer; fatal
                      \* once the runtime has ended the process
    call,             \* the facade call each caller is in
    ret,              \* the value that call is about to return
    out,              \* how the call each caller is in ends: none (yet), ok, err, panic
    raw,              \* the release function RawState gave each caller: none, held
                      \* (not invoked yet), spent (invoked once), twice
    vals,             \* every State, ExecState and FileAction returned so far
    fs,               \* the filesystem: what stat reports for each path
    fsEpoch,          \* number of filesystem changes so far
    built,            \* the nodes llb.Local built for WithInclude, in order
    hist,             \* the WithInclude calls on local sources, in the order they ended
    nev,              \* facade calls and filesystem changes so far
    eval,             \* an evaluation of fixIncl or of the key function on its own;
                      \* eval.f also names a restricted repertoire of the callers
    secondRelease     \* TRUE once a release function has been invoked a second time

vars == <<gmu, withincludCache, pc, call, ret, out, raw, vals, fs, fsEpoch, built, hist,
          nev, eval, secondRelease>>

\* A facade call: its arguments, the locals of WithInclude (fixed is incl after
\* fixIncl, key the cache key, epoch the filesystem epoch the key was computed
\* at, t0 the number of the event that began a call of WithInclude on a local
\* source), and what the library answered to Marshal or GetDir (liberr).
Call(op, recv, arg, name, opts, incl) ==
    [op |-> op, recv |-> recv, arg |-> arg, name |-> name, opts |-> opts, incl |-> incl,
     fixed |-> <<>>, key |-> <<>>, epoch |-> 0, t0 |-> 0, liberr |-> "none"]
NoCall == Call("none", NoVal, NoVal, <<>>, <<>>, <<>>)
Plain(op) == Call(op, NoVal, NoVal, <<>>, <<>>, <<>>)
On(op, recv) == Call(op, recv, NoVal, <<>>, <<>>, <<>>)
With(op, recv, arg) == Call(op, recv, arg, <<>>, <<>>, <<>>)

Kind(k) == {v \in vals : v.kind = k}

\* Every facade call a caller can make with the values returned so far.
AllCalls ==
    {Plain(op) : op \in {"FromRawState", "Scratch", "Image", "Git", "Mkdir", "Mkfile"}}
    \cup {Call("Local", NoVal, NoVal, n, o, <<>>) : n \in LocalNames, o \in OptLists}
    \cup {With(op, NoVal, s) : op \in {"Copy", "AddMount"}, s \in Kind("State")}
    \cup {On(op, s) : op \in {"RawState", "UnsafeUnwrap", "Output", "SetMarshalDefaults",
                              "Marshal", "Run", "AddEnv", "Dir", "GetDir", "User",
                              "Platform"},
                      s \in Kind("State")}
    \cup {With("File", s, a) : s \in Kind("State"), a \in Kind("FileAction")}
    \cup {Call("WithInclude", s, NoVal, <<>>, <<>>, i) : s \in Kind("State"), i \in InclArgs}
    \cup {On("Root", e) : e \in Kind("ExecState")}
    \cup {With("ExecStateAddMount", e, s) : e \in Kind("ExecState"), s \in Kind("State")}
    \cup {On(op, a) : op \in {"FileActionMkdir", "FileActionMkfile", "FileActionRm"},
                      a \in Kind("FileAction")}
    \cup {With("FileActionCopy", a, s) : a \in Kind("FileAction"), s \in Kind("State")}

\* "x", "y", and "x" followed by eight NUL bytes and "x"
PathX == <<120>>
PathY == <<121>>
PathXNulX == PathX \o [i \in 1 .. InodeBytes |-> 0] \o PathX
\* include lists that are permutations of each other, or repeat a path
OrderInclArgs == {<<PathX, PathY>>, <<PathY, PathX>>, <<PathX>>, <<PathX, PathX>>,
                  <<PathX, PathXNulX>>, <<PathXNulX, PathX>>}
OrderFsPaths == LocalNames \cup {PathX, PathY}

\* The calls of callers that only build local sources and filter them with
\* the include lists of OrderInclArgs.
OrderCalls ==
    {Call("Local", NoVal, NoVal, n, <<>>, <<>>) : n \in LocalNames}
    \cup {Call("WithInclude", s, NoVal, <<>>, <<>>, i) : s \in Kind("State"),
                                                        i \in OrderInclArgs}

\* The calls the callers choose from: eval.f names what they are playing.
Calls == IF eval.f = "order" THEN OrderCalls ELSE AllCalls

NoEval == [f |-> "none", name |-> <<>>, incl |-> <<>>, name2 |-> <<>>, incl2 |-> <<>>,
           done |-> FALSE, res |-> Returned(<<>>), bytes |-> <<>>, bytes2 |-> <<>>,
           key |-> <<>>, key2 |-> <<>>]

\* The directory "ctx" exists; no file is named "*".
InitFs == [p \in FsPaths |-> IF p \in LocalNames THEN Inode(1) ELSE NoFile]

\* An empty cache, a free lock, no caller inside the package; the callers
\* hold the values of pool, which n calls returned.
InitPackageAfter(pool, n) ==
    /\ gmu = FALSE
    /\ withincludCache = <<>>
    /\ pc = [p \in Procs |-> "idle"]
    /\ call = [p \in Procs |-> NoCall]
    /\ ret = [p \in Procs |-> NoVal]
    /\ out = [p \in Procs |-> "none"]
    /\ raw = [p \in Procs |-> "none"]
    /\ vals = pool
    /\ fsEpoch = 0
    /\ built = <<>>
    /\ hist = <<>>
    /\ nev = n
    /\ secondRelease = FALSE

\* init(): no call has been made.
InitPackage == InitPackageAfter({}, 0)

Init == InitPackage /\ fs = InitFs /\ eval = NoEval

(***************************************************************************)
(* The steps every locking facade function shares.                         *)
(***************************************************************************)
\* A caller enters a facade function.
Invoke(p) ==
    /\ pc[p] = "idle"
    /\ nev < MaxEvents
    /\ \E c \in Calls :
          /\ c.op # "UnsafeUnwrap"
          /\ call' = [call EXCEPT ![p] = IF c.op = "WithInclude" /\ c.recv.localName # <<>>
                                          THEN [c EXCEPT !.t0 = nev + 1] ELSE c]
    /\ pc' = [pc EXCEPT ![p] = "lock"]
    /\ out' = [out EXCEPT ![p] = "none"]
    /\ nev' = nev + 1
    /\ UNCHANGED <<gmu, withincludCache, ret, raw, vals, fs, fsEpoch, built, hist, eval,
                   secondRelease>>

\* sync.Mutex: Lock returns only once the mutex is free and leaves it locked;
\* Unlock leaves it free.
\* (a Lock that does not wait)
CanLockAlways(p) == TRUE
\* (a mutex its holder may lock again)
CanLockReentrant(p) == ~gmu \/ raw[p] = "held"
CanLock(p) == ~gmu
MutexLock(m) == TRUE
\* (an Unlock that leaves the mutex as it was)
MutexUnlockNot(m) == m
MutexUnlock(m) == FALSE
\* (an Unlock that accepts a mutex that is not locked)
UnlockNeverFaults(m) == FALSE
\* Unlock of a mutex that is not locked is a fatal error of the runtime
\* ("sync: unlock of unlocked mutex"), which ends the process.
UnlockFaults(m) == ~m
Fatal == [p \in Procs |-> "fatal"]

\* gmu.Lock()
Lock(p) ==
    /\ pc[p] = "lock"
    /\ CanLock(p)
    /\ gmu' = MutexLock(gmu)
    /\ pc' = [pc EXCEPT ![p] = "body"]
    /\ UNCHANGED <<withincludCache, call, ret, out, raw, vals, fs, fsEpoch, built, hist, nev,
                   eval, secondRelease>>

\* (a method that writes its result into its receiver)
PutInPlace(pool, recv, v) == IF v = NoVal THEN pool ELSE (pool \ {recv}) \cup {v}
\* The value a facade function returns is a new value; the receiver stays as it is.
Put(pool, recv, v) == IF v = NoVal THEN pool ELSE pool \cup {v}

\* defer gmu.Unlock() and the return to the caller.
Unlock(p) ==
    /\ pc[p] = "defer"
    /\ IF UnlockFaults(gmu)
       THEN /\ pc' = Fatal
            /\ UNCHANGED <<gmu, vals, call, ret, out>>
       ELSE /\ gmu' = MutexUnlock(gmu)
            /\ vals' = Put(vals, call[p].recv, ret[p])
            /\ pc' = [pc EXCEPT ![p] = "idle"]
            /\ call' = [call EXCEPT ![p] = NoCall]
            /\ ret' = [ret EXCEPT ![p] = NoVal]
            /\ out' = [out EXCEPT ![p] = "none"]
    /\ UNCHANGED <<withincludCache, raw, fs, fsEpoch, built, hist, nev, eval, secondRelease>>

\* The body of a wrapper: one delegated call, its result wrapped.
Delegate(p, op, result) ==
    /\ pc[p] = "body"
    /\ call[p].op = op
    /\ ret' = [ret EXCEPT ![p] = result]
    /\ out' = [out EXCEPT ![p] = "ok"]
    /\ pc' = [pc EXCEPT ![p] = "defer"]
    /\ UNCHANGED <<gmu, withincludCache, call, raw, vals, fs, fsEpoch, built, hist, nev,
                   eval, secondRelease>>

\* (the library's error wrapped in a new one)
Wrapped(e) == IF e = "err" THEN "wrapped" ELSE e
\* return s.st.Marshal(ctx, co...): the wrapper returns what the library returned.
Passed(e) == e

\* The body of a wrapper whose delegated call may fail (Marshal, GetDir): one
\* call of the library, which answers ok or err.
DelegateErr(p, op) ==
    /\ pc[p] = "body"
    /\ call[p].op = op
    /\ \E e \in {"ok", "err"} :
          /\ call' = [call EXCEPT ![p].liberr = e]
          /\ out' = [out EXCEPT ![p] = Passed(e)]
    /\ pc' = [pc EXCEPT ![p] = "defer"]
    /\ UNCHANGED <<gmu, withincludCache, ret, raw, vals, fs, fsEpoch, built, hist, nev,
                   eval, secondRelease>>

(***************************************************************************)
(* The wrappers. Each is gmu.Lock(); defer gmu.Unlock(); return wrapped    *)
(* result of the delegated call.                                           *)
(***************************************************************************)
\* return State{st: st}
FromRawState(p) ==
    /\ Delegate(p, "FromRawState", StateOf(RawNode))

Scratch(p) ==
    /\ Delegate(p, "Scratch", StateOf(llbSource("Scratch")))

\* the only constructor that records localName and localOpts
Local(p) ==
    /\ Delegate(p, "Local",
                Val("State", llbLocal(call[p].name, call[p].opts), call[p].name, call[p].opts))

Image(p) ==
    /\ Delegate(p, "Image", StateOf(llbSource("Image")))

Git(p) ==
    /\ Delegate(p, "Git", StateOf(llbSource("Git")))

\* returns an llb.Output, not a wrapper
Output(p) ==
    /\ Delegate(p, "Output", NoVal)

SetMarshalDefaults(p) ==
    /\ Delegate(p, "SetMarshalDefaults",
                StateOf(llbApply("SetMarshalDefaults", <<call[p].recv.st>>)))

Run(p) ==
    /\ Delegate(p, "Run", ExecStateOf(llbApply("Run", <<call[p].recv.st>>)))

File(p) ==
    /\ Delegate(p, "File", StateOf(llbApply("File", <<call[p].recv.st, call[p].arg.st>>)))

AddEnv(p) ==
    /\ Delegate(p, "AddEnv", StateOf(llbApply("AddEnv", <<call[p].recv.st>>)))

Dir(p) ==
    /\ Delegate(p, "Dir", StateOf(llbApply("Dir", <<call[p].recv.st>>)))

User(p) ==
    /\ Delegate(p, "User", StateOf(llbApply("User", <<call[p].recv.st>>)))

Platform(p) ==
    /\ Delegate(p, "Platform", StateOf(llbApply("Platform", <<call[p].recv.st>>)))

\* ExecState.AddMount
ExecStateAddMount(p) ==
    /\ Delegate(p, "ExecStateAddMount",
                StateOf(llbApply("AddMount", <<call[p].recv.st, call[p].arg.st>>)))

\* ExecState.Root
Root(p) ==
    /\ Delegate(p, "Root", StateOf(llbApply("Root", <<call[p].recv.st>>)))

\* the package function AddMount: returns an llb.RunOption
AddMount(p) ==
    /\ Delegate(p, "AddMount", NoVal)

\* FileAction.Mkdir
FileActionMkdir(p) ==
    /\ Delegate(p, "FileActionMkdir",
                FileActionOf(llbApply("Mkdir", <<call[p].recv.st>>)))

\* FileAction.Mkfile
FileActionMkfile(p) ==
    /\ Delegate(p, "FileActionMkfile",
                FileActionOf(llbApply("Mkfile", <<call[p].recv.st>>)))

\* FileAction.Rm
FileActionRm(p) ==
    /\ Delegate(p, "FileActionRm",
                FileActionOf(llbApply("Rm", <<call[p].recv.st>>)))

\* FileAction.Copy; input.UnsafeUnwrap() is the input's st
FileActionCopy(p) ==
    /\ Delegate(p, "FileActionCopy",
                FileActionOf(llbApply("Copy", <<call[p].recv.st, call[p].arg.st>>)))

\* the package function Mkdir
Mkdir(p) ==
    /\ Delegate(p, "Mkdir", FileActionOf(llbSource("Mkdir")))

\* the package function Mkfile
Mkfile(p) ==
    /\ Delegate(p, "Mkfile", FileActionOf(llbSource("Mkfile")))

\* the package function Copy
Copy(p) ==
    /\ Delegate(p, "Copy", FileActionOf(llbApply("Copy", <<call[p].arg.st>>)))

\* Marshal and GetDir return what the library returns, error included.
Marshal(p) ==
    /\ DelegateErr(p, "Marshal")

GetDir(p) ==
    /\ DelegateErr(p, "GetDir")

\* (a deferred gmu.Unlock in RawState too)
UnlockedOnReturn(m) == FALSE
\* RawState defers no unlock: the mutex is returned as Lock left it.
HeldOnReturn(m) == m

\* RawState: gmu.Lock() with no deferred unlock; returns s.st and gmu.Unlock.
RawState(p) ==
    /\ pc[p] = "body"
    /\ call[p].op = "RawState"
    /\ gmu' = HeldOnReturn(gmu)
    /\ raw' = [raw EXCEPT ![p] = "held"]
    /\ pc' = [pc EXCEPT ![p] = "idle"]
    /\ call' = [call EXCEPT ![p] = NoCall]
    /\ UNCHANGED <<withincludCache, ret, out, vals, fs, fsEpoch, built, hist, nev, eval,
                   secondRelease>>

\* The caller invokes the release function RawState returned: gmu.Unlock().
Release(p) ==
    /\ raw[p] = "held"
    /\ pc[p] = "idle"
    /\ raw' = [raw EXCEPT ![p] = "spent"]
    /\ IF UnlockFaults(gmu)
       THEN pc' = Fatal /\ UNCHANGED gmu
       ELSE gmu' = MutexUnlock(gmu) /\ UNCHANGED pc
    /\ UNCHANGED <<withincludCache, call, ret, out, vals, fs, fsEpoch, built, hist, nev,
                   eval, secondRelease>>

\* The caller invokes a release function a second time: the function is
\* gmu.Unlock itself and does not know that it was invoked before.
ReleaseAgain(p) ==
    /\ raw[p] = "spent"
    /\ pc[p] = "idle"
    /\ raw' = [raw EXCEPT ![p] = "twice"]
    /\ IF UnlockFaults(gmu)
       THEN pc' = Fatal /\ UNCHANGED gmu
       ELSE gmu' = MutexUnlock(gmu) /\ UNCHANGED pc
    /\ secondRelease' = TRUE
    /\ UNCHANGED <<withincludCache, call, ret, out, vals, fs, fsEpoch, built, hist, nev, eval>>

\* UnsafeUnwrap returns s.st and takes no lock.
UnsafeUnwrap(p) ==
    /\ pc[p] = "idle"
    /\ nev < MaxEvents
    /\ Kind("State") # {}
    /\ nev' = nev + 1
    /\ UNCHANGED <<gmu, withincludCache, pc, call, ret, out, raw, vals, fs, fsEpoch, built,
                   hist, eval, secondRelease>>

(***************************************************************************)
(* WithInclude.                                                            *)
(***************************************************************************)
\* One WithInclude call on a local source: how it went (hit, miss, panic), what
\* it was given, what it returned, and when (events t0 to t1, the key computed
\* at filesystem epoch epoch).
Entry(kind, c, fixed, key, st, epoch) ==
    [kind |-> kind, recv |-> c.recv, incl |-> c.incl, fixed |-> fixed, key |-> key,
     ret |-> st, epoch |-> epoch, t0 |-> c.t0, t1 |-> nev]

\* (no check of the recorded name)
IsLocalAlways(s) == TRUE
\* if s.localName == "" { return s }
IsLocal(s) == s.localName # <<>>

\* st, ok := withincludCache[key]
Hit(cache, key) == key \in DOMAIN cache

\* (a store that evicts every other entry)
StoreEvicting(cache, key, st) == [k \in {key} |-> st]
\* withincludCache[key] = st
Store(cache, key, st) == [k \in DOMAIN cache \cup {key} |-> IF k = key THEN st ELSE cache[k]]

\* (the options of the receiver left out)
NewOptsWithoutLocalOpts(s, incl, key) == <<IncludePatterns(incl), SharedKeyHint(key)>>
\* The option list of the new node: a copy of s.localOpts, then the include
\* patterns, then the shared key hint.
NewOpts(s, incl, key) == s.localOpts \o <<IncludePatterns(incl), SharedKeyHint(key)>>

\* WithInclude up to the cache lookup (state.go:183-197). A panic in fixIncl
\* unwinds through the deferred gmu.Unlock.
WithInclude(p) ==
    /\ pc[p] = "body"
    /\ call[p].op = "WithInclude"
    /\ LET s == call[p].recv
           fixed == fixIncl(call[p].incl)
           key == getSharedKeyHintFromInclude(fs, s.localName, fixed.v)
       IN  IF ~IsLocal(s)
           THEN /\ ret' = [ret EXCEPT ![p] = s]
                /\ out' = [out EXCEPT ![p] = "ok"]
                /\ pc' = [pc EXCEPT ![p] = "defer"]
                /\ UNCHANGED <<hist, call>>
           ELSE IF fixed.panic
           THEN /\ out' = [out EXCEPT ![p] = "panic"]
                /\ hist' = Append(hist, Entry("panic", call[p], <<>>, <<>>, NoVal, fsEpoch))
                /\ pc' = [pc EXCEPT ![p] = "defer"]
                /\ UNCHANGED <<ret, call>>
           ELSE IF Hit(withincludCache, key)
           THEN /\ ret' = [ret EXCEPT ![p] = withincludCache[key]]
                /\ out' = [out EXCEPT ![p] = "ok"]
                /\ hist' = Append(hist, Entry("hit", call[p], fixed.v, key,
                                               withincludCache[key], fsEpoch))
                /\ pc' = [pc EXCEPT ![p] = "defer"]
                /\ call' = [call EXCEPT ![p].fixed = fixed.v, ![p].key = key]
           ELSE /\ pc' = [pc EXCEPT ![p] = "build"]
                /\ call' = [call EXCEPT ![p].fixed = fixed.v, ![p].key = key,
                                        ![p].epoch = fsEpoch]
                /\ UNCHANGED <<ret, out, hist>>
    /\ UNCHANGED <<gmu, withincludCache, raw, vals, fs, fsEpoch, built, nev, eval, secondRelease>>

\* WithInclude after a miss (state.go:199-210): build the node, store it, return it.
WithIncludeMiss(p) ==
    /\ pc[p] = "build"
    /\ LET s == call[p].recv
           st == StateOf(llbLocal(s.localName, NewOpts(s, call[p].fixed, call[p].key)))
       IN  /\ built' = Append(built, st.st)
           /\ withincludCache' = Store(withincludCache, call[p].key, st)
           /\ ret' = [ret EXCEPT ![p] = st]
           /\ hist' = Append(hist, Entry("miss", call[p], call[p].fixed, call[p].key, st,
                                          call[p].epoch))
    /\ out' = [out EXCEPT ![p] = "ok"]
    /\ pc' = [pc EXCEPT ![p] = "defer"]
    /\ UNCHANGED <<gmu, call, raw, vals, fs, fsEpoch, nev, eval, secondRelease>>

(***************************************************************************)
(* The environment: the filesystem changes under the program.              *)
(***************************************************************************)
FsChange ==
    /\ nev < MaxEvents
    /\ \E path \in DOMAIN fs :
          \E f \in FileStates \ {fs[path]} : fs' = [fs EXCEPT ![path] = f]
    /\ fsEpoch' = fsEpoch + 1
    /\ nev' = nev + 1
    /\ UNCHANGED <<gmu, withincludCache, pc, call, ret, out, raw, vals, built, hist,
                   eval, secondRelease>>

Next ==
    \/ FsChange
    \/ \E p \in Procs : Invoke(p)
    \/ \E p \in Procs : Lock(p)
    \/ \E p \in Procs : Unlock(p)
    \/ \E p \in Procs : FromRawState(p)
    \/ \E p \in Procs : Scratch(p)
    \/ \E p \in Procs : Local(p)
    \/ \E p \in Procs : Image(p)
    \/ \E p \in Procs : Git(p)
    \/ \E p \in Procs : Output(p)
    \/ \E p \in Procs : SetMarshalDefaults(p)
    \/ \E p \in Procs : Run(p)
    \/ \E p \in Procs : File(p)
    \/ \E p \in Procs : AddEnv(p)
    \/ \E p \in Procs : Dir(p)
    \/ \E p \in Procs : User(p)
    \/ \E p \in Procs : Platform(p)
    \/ \E p \in Procs : ExecStateAddMount(p)
    \/ \E p \in Procs : Root(p)
    \/ \E p \in Procs : AddMount(p)
    \/ \E p \in Procs : FileActionMkdir(p)
    \/ \E p \in Procs : FileActionMkfile(p)
    \/ \E p \in Procs : FileActionRm(p)
    \/ \E p \in Procs : FileActionCopy(p)
    \/ \E p \in Procs : Mkdir(p)
    \/ \E p \in Procs : Mkfile(p)
    \/ \E p \in Procs : Copy(p)
    \/ \E p \in Procs : Marshal(p)
    \/ \E p \in Procs : GetDir(p)
    \/ \E p \in Procs : RawState(p)
    \/ \E p \in Procs : Release(p)
    \/ \E p \in Procs : UnsafeUnwrap(p)
    \/ \E p \in Procs : WithInclude(p)
    \/ \E p \in Procs : WithIncludeMiss(p)

Spec == Init /\ [][Next]_vars

(***************************************************************************)
(* fixIncl on its own: every include list over ".", "/" and "a" up to the  *)
(* bounds.                                                                 *)
(***************************************************************************)
Patterns == SeqsUpTo({Dot, Slash, 97}, MaxPatLen)
InclLists == SeqsUpTo(Patterns, MaxInclLen)

main == <<gmu, withincludCache, pc, call, ret, out, raw, vals, fs, fsEpoch, built, hist, nev,
          secondRelease>>

InitFix ==
    /\ InitPackage
    /\ fs = InitFs
    /\ eval \in {[NoEval EXCEPT !.f = "fixIncl", !.incl = l] : l \in InclLists}

EvalFixIncl ==
    /\ eval.f = "fixIncl"
    /\ ~eval.done
    /\ eval' = [eval EXCEPT !.done = TRUE, !.res = fixIncl(eval.incl)]
    /\ UNCHANGED main

NextFix == EvalFixIncl

SpecFix == InitFix /\ [][NextFix]_vars

(***************************************************************************)
(* getSharedKeyHintFromInclude on its own, on two inputs under one         *)
(* filesystem. The first input is free of NUL bytes; the second may carry, *)
(* inside its name, the eight bytes PutUint64 writes.                      *)
(***************************************************************************)
\* "", "a", "b", "ab"
PlainStrings == {<<>>, <<97>>, <<98>>, <<97, 98>>}
EmbeddedStrings ==
    {s \o PutUint64(i) \o t : s \in {<<>>, <<97>>}, t \in {<<>>, <<97>>}, i \in 0 .. MaxInode}
PlainLists == SeqsUpTo(PlainStrings, MaxKeyIncl)
PlainInputs == {[name |-> n, incl |-> l] : n \in PlainStrings, l \in PlainLists}
EmbeddedInputs == {[name |-> n, incl |-> l] : n \in EmbeddedStrings, l \in PlainLists}
\* the one file that may exist: "a"
KeyFsPaths == {<<97>>}

InitKey ==
    /\ InitPackage
    /\ fs \in [KeyFsPaths -> FileStates]
    /\ eval \in {[NoEval EXCEPT !.f = "key", !.name = x.name, !.incl = x.incl,
                                !.name2 = y.name, !.incl2 = y.incl] :
                 x \in PlainInputs, y \in PlainInputs \cup EmbeddedInputs}

EvalKey ==
    /\ eval.f = "key"
    /\ ~eval.done
    /\ eval' = [eval EXCEPT !.done = TRUE,
                            !.bytes = HashInput(fs, eval.name, eval.incl),
                            !.bytes2 = HashInput(fs, eval.name2, eval.incl2),
                            !.key = getSharedKeyHintFromInclude(fs, eval.name, eval.incl),
                            !.key2 = getSharedKeyHintFromInclude(fs, eval.name2, eval.incl2)]
    /\ UNCHANGED main

NextKey == EvalKey

SpecKey == InitKey /\ [][NextKey]_vars

(***************************************************************************)
(* The package under callers that build one local source and filter it     *)
(* with include lists that are permutations or repetitions of each other.  *)
(***************************************************************************)
\* "ctx" exists, "x" does not, "y" does
InitOrderFs == [p \in OrderFsPaths |-> IF p = PathX THEN NoFile
                                        ELSE IF p = PathY THEN Inode(2) ELSE Inode(1)]

InitOrder ==
    /\ InitPackage
    /\ fs = InitOrderFs
    /\ eval = [NoEval EXCEPT !.f = "order"]

NextOrder ==
    \/ FsChange
    \/ \E p \in Procs : Invoke(p)
    \/ \E p \in Procs : Lock(p)
    \/ \E p \in Procs : Unlock(p)
    \/ \E p \in Procs : Local(p)
    \/ \E p \in Procs : WithInclude(p)
    \/ \E p \in Procs : WithIncludeMiss(p)

SpecOrder == InitOrder /\ [][NextOrder]_vars

(***************************************************************************)
(* The package under callers that may invoke a release function of         *)
(* RawState a second time, from the state in which Local("ctx") has        *)
(* returned.                                                               *)
(***************************************************************************)
\* what Local("ctx") returns
LocalCtx == Val("State", llbLocal(<<99, 116, 120>>, <<>>), <<99, 116, 120>>, <<>>)

InitMisuse ==
    /\ InitPackageAfter({LocalCtx}, MaxEvents - 3)
    /\ fs = InitFs
    /\ eval = NoEval

NextMisuse ==
    \/ Next
    \/ \E p \in Procs : ReleaseAgain(p)

SpecMisuse == InitMisuse /\ [][NextMisuse]_vars

(***************************************************************************)
(* The package under a fair scheduler and a starvation-free mutex, from    *)
(* the state in which Local("ctx") and Mkdir have returned.                *)
(***************************************************************************)
InitLive ==
    /\ InitPackageAfter({LocalCtx, FileActionOf(llbSource("Mkdir"))}, MaxEvents - 2)
    /\ fs = InitFs
    /\ eval = NoEval

\* A caller between gmu.Lock() and its deferred Unlock takes its next step:
\* nothing inside a facade function waits, and the delegated call terminates.
\* (Every step of Next that moves a caller on from body or build is such a step.)
Proceeds(p) ==
    /\ pc[p] \in {"body", "build"}
    /\ pc' \in {[pc EXCEPT ![p] = x] : x \in {"build", "defer", "idle"} \ {pc[p]}}

\* A caller that can go on does (fair scheduling); a caller that finds the
\* mutex free again and again gets it (starvation-free mutex).
Fairness ==
    \A p \in Procs : WF_pc(Proceeds(p)) /\ WF_vars(Unlock(p)) /\ SF_vars(Lock(p))

SpecLive == InitLive /\ [][Next]_vars /\ Fairness

(***************************************************************************)
(* Properties.                                                             *)
(***************************************************************************)
\* A caller is inside the library or the cache: in a delegated call, or owner
\* of the raw node RawState handed out.
InLibrary(p) == pc[p] \in {"body", "build", "defer"} \/ raw[p] = "held"

\* C1: at most one caller at a time is in a delegated call into the library or
\* at the dedup cache, and the mutex is locked exactly while one is.
C1_MutualExclusion ==
    /\ \A p, q \in Procs : InLibrary(p) /\ InLibrary(q) => p = q
    /\ gmu <=> \E p \in Procs : InLibrary(p)

\* a caller is in a delegated call while another waits for the lock
C1_Witness == \E p, q \in Procs : pc[p] \in {"body", "build"} /\ pc[q] = "lock"

\* the include list ["."] and what it is normalized to, ["./*"]
InclDot == << <<Dot>> >>
InclDotStar == << <<Dot, Slash, Star>> >>

\* the include lists among the options of a node
IncludeOf(st) == {st.opts[i].v : i \in {j \in 1 .. Len(st.opts) :
                                           st.opts[j].k = "IncludePatterns"}}

\* the nodes llb.Local built for WithInclude under a key
BuiltFor(key) == {n \in 1 .. Len(built) : \E i \in 1 .. Len(built[n].opts) :
                                             built[n].opts[i] = SharedKeyHint(key)}

\* two entries of hist are WithInclude(["."]) on the same local-source State
\* with the filesystem unchanged between them
SameDotCalls(i, j) ==
    /\ hist[i].recv = hist[j].recv
    /\ hist[i].incl = InclDot
    /\ hist[j].incl = InclDot
    /\ hist[i].epoch = hist[j].epoch

\* C2: two callers apply WithInclude(["."]) to one local-source State, the
\* filesystem unchanged: one filtered node is built, one entry is stored, both
\* get the same State, and its include list is ["./*"].
C2_ConcurrentDedup ==
    \A i, j \in DOMAIN hist :
        i < j /\ SameDotCalls(i, j) =>
            /\ hist[i].ret = hist[j].ret
            /\ hist[j].kind = "hit"
            /\ Cardinality(BuiltFor(hist[j].key)) = 1
            /\ Cardinality({n \in DOMAIN hist : hist[n].kind = "miss"
                                                /\ hist[n].key = hist[j].key}) = 1
            /\ hist[j].key \in DOMAIN withincludCache
            /\ withincludCache[hist[j].key] = hist[j].ret
            /\ IncludeOf(hist[j].ret.st) = {InclDotStar}

\* both calls have returned, and the second began before the first had returned
C2_Witness ==
    \E i, j \in DOMAIN hist : i < j /\ SameDotCalls(i, j) /\ hist[j].t0 <= hist[i].t1

\* the second of two WithInclude calls on local-source States of one name, with
\* one include list, began after the first had ended, the filesystem unchanged
TwiceInSequence(i, j) ==
    /\ i < j
    /\ hist[i].recv.localName = hist[j].recv.localName
    /\ hist[i].incl = hist[j].incl
    /\ hist[i].epoch = hist[j].epoch
    /\ hist[i].t1 < hist[j].t0

\* C3: WithInclude(P) twice in sequence on local-source States named N, no
\* path identity changing in between: the second call returns the State of
\* the first and builds no node.
C3_DedupIdempotence ==
    \A i, j \in DOMAIN hist :
        TwiceInSequence(i, j) => hist[j].kind = "hit" /\ hist[j].ret = hist[i].ret

\* the State WithInclude builds from a receiver on a miss
Fresh(s, fixed, key) == StateOf(llbLocal(s.localName, NewOpts(s, fixed, key)))

\* C4: a State returned on a key hit equals the State that would have been
\* built from the receiver's own name, options and normalized include list.
C4_EqualKeysEqualNodes ==
    \A i \in DOMAIN hist :
        hist[i].kind = "hit" => hist[i].ret = Fresh(hist[i].recv, hist[i].fixed, hist[i].key)

\* C5: WithInclude on a State with no recorded local name returns the
\* receiver, whatever the include list, and goes no further.
C5_NonLocalPassthrough ==
    \A p \in Procs :
        call[p].op = "WithInclude" /\ call[p].recv.localName = <<>> =>
            /\ pc[p] # "build"
            /\ pc[p] = "defer" => ret[p] = call[p].recv /\ out[p] = "ok"

\* WithInclude is about to return for a State with no local name, given [""]
C5_Witness ==
    \E p \in Procs :
        /\ pc[p] = "defer"
        /\ call[p].op = "WithInclude"
        /\ call[p].recv.localName = <<>>
        /\ call[p].recv.st.op \in {"Scratch", "Image", "Git", "Raw"}
        /\ call[p].incl = << <<>> >>

\* what the claim of C6 says one pattern becomes
NormalizedAsClaimed(inc) ==
    IF inc = <<Dot>> THEN <<Dot, Slash, Star>>
    ELSE IF Len(inc) >= 2 /\ inc[Len(inc)] = Dot /\ inc[Len(inc) - 1] = Slash
         THEN SubSeq(inc, 1, Len(inc) - 1) \o <<Star>>
         ELSE inc

\* C6: fixIncl returns a list of the same length and order: "." becomes "./*",
\* a trailing "." component becomes "*", every other pattern (the empty
\* string and patterns ending in "/" included) is unchanged.
C6_PatternNormalization ==
    eval.f = "fixIncl" /\ eval.done =>
        /\ ~eval.res.panic
        /\ Len(eval.res.v) = Len(eval.incl)
        /\ \A i \in 1 .. Len(eval.incl) : eval.res.v[i] = NormalizedAsClaimed(eval.incl[i])

InputsDiffer == eval.name # eval.name2 \/ eval.incl # eval.incl2

\* C7 as claimed: two inputs that differ in the name or in an include path
\* feed different bytes to the digest and get different keys.
C7_KeySensitivity_Claimed ==
    eval.f = "key" /\ eval.done /\ InputsDiffer =>
        eval.bytes # eval.bytes2 /\ eval.key # eval.key2

NulFree(name, incl) == ~HasNul(name) /\ \A i \in 1 .. Len(incl) : ~HasNul(incl[i])

\* C7 as amended: the same, for names and include paths that hold no NUL byte
\* (identity numbers below 2^56, as all of the modelled filesystem are).
C7_KeySensitivity ==
    (/\ eval.f = "key"
     /\ eval.done
     /\ InputsDiffer
     /\ NulFree(eval.name, eval.incl)
     /\ NulFree(eval.name2, eval.incl2))
    => eval.bytes # eval.bytes2 /\ eval.key # eval.key2

\* two NUL-free inputs whose strings, put end to end, are the same
C7_Witness ==
    /\ eval.f = "key"
    /\ eval.done
    /\ InputsDiffer
    /\ NulFree(eval.name2, eval.incl2)
    /\ eval.name \o Concat(eval.incl) = eval.name2 \o Concat(eval.incl2)

\* C8: no facade call changes a value that exists: every State, ExecState and
\* FileAction returned so far stays as it is, and so does the receiver of a
\* call in progress.
C8_Immutability ==
    [][/\ vals \subseteq vals'
       /\ \A p \in Procs : call[p].op # "none" /\ call'[p].op # "none"
                           => call'[p].recv = call[p].recv]_vars

\* a transformation and WithInclude have returned, their receivers still there
C8_Witness ==
    /\ \E s, t \in vals : t.st.in # <<>> /\ t.st.in[1] = s.st
    /\ \E i \in DOMAIN hist : /\ hist[i].kind = "miss"
                              /\ hist[i].recv \in vals
                              /\ hist[i].ret \in vals

NoCallInProgress == \A p \in Procs : pc[p] = "idle"

\* C9 as claimed: whenever no facade call is in progress, the lock is free.
C9_LockPerCall_Claimed == NoCallInProgress => ~gmu

\* C9 as amended: whenever no facade call is in progress and no release
\* function of RawState is outstanding, the lock is free.
C9_LockPerCall == NoCallInProgress /\ (\A p \in Procs : raw[p] # "held") => ~gmu

\* calls have returned, WithInclude among them, and nothing is outstanding
C9_Witness ==
    /\ NoCallInProgress
    /\ \A p \in Procs : raw[p] # "held"
    /\ hist # <<>>

\* C10: while a release function of RawState is outstanding the lock is held,
\* no other caller is in a delegated call, and no caller waiting for the lock
\* gets it in a step that leaves the release function uninvoked.
C10_RawStateHoldsLock ==
    [][\A p \in Procs : raw[p] = "held" =>
          /\ gmu
          /\ \A q \in Procs \ {p} : ~InLibrary(q)
          /\ raw'[p] = "held" => \A q \in Procs : pc[q] = "lock" => pc'[q] = "lock"]_vars

\* a caller waits for the lock while another owns an uninvoked release function
C10_Witness == \E p, q \in Procs : p # q /\ raw[p] = "held" /\ pc[q] = "lock"

\* C12: an entry of the dedup cache, once stored, stays mapped to the same
\* State in every later state; the only step that changes the cache is the
\* store of WithInclude after a miss, and it adds one entry under a key that
\* had none.
C12_CacheMonotonic ==
    [][/\ \A k \in DOMAIN withincludCache :
             k \in DOMAIN withincludCache' /\ withincludCache'[k] = withincludCache[k]
       /\ withincludCache' # withincludCache =>
             \E p \in Procs :
                 /\ call[p].op = "WithInclude"
                 /\ pc[p] = "build"
                 /\ pc'[p] = "defer"
                 /\ call[p].key \notin DOMAIN withincludCache
                 /\ DOMAIN withincludCache' = DOMAIN withincludCache \cup {call[p].key}]_vars

\* two entries are stored, and a call that found one of them has returned since
C12_Witness ==
    /\ Cardinality(DOMAIN withincludCache) >= 2
    /\ \E i \in DOMAIN hist : hist[i].kind = "hit"

\* the eight bytes of a number below 2^32, least significant first
EightBytes(n) ==
    <<n % 256, (n \div 256) % 256, (n \div 65536) % 256, (n \div 16777216) % 256, 0, 0, 0, 0>>

\* a path followed by the eight bytes of its identity number
PathAndIdentity(f, path) == path \o EightBytes(getInodeBestEffort(f, path))

\* C13 as claimed: the bytes digested are the name, then each include path
\* followed by its identity number; the name is not probed.
C13_KeyInput_Claimed ==
    eval.f = "key" /\ eval.done =>
        eval.bytes = eval.name \o Concat([i \in 1 .. Len(eval.incl) |->
                                             PathAndIdentity(fs, eval.incl[i])])

\* C13 as amended: the bytes digested are the name followed by the identity
\* number of the name taken as a path, then each include path, in list order,
\* followed by its identity number, each number as 8 bytes little-endian.
C13_KeyInput ==
    eval.f = "key" /\ eval.done =>
        eval.bytes = PathAndIdentity(fs, eval.name)
                     \o Concat([i \in 1 .. Len(eval.incl) |-> PathAndIdentity(fs, eval.incl[i])])

\* the key of a name and an include path that both name a file with inode 2
C13_Witness ==
    /\ eval.f = "key"
    /\ eval.done
    /\ eval.name = <<97>>
    /\ eval.incl = << <<97>> >>
    /\ fs[<<97>>] = Inode(2)

\* C14: a WithInclude call on a local source that found no entry built a
\* local-source node with the receiver's name and, as options, the receiver's
\* options in order, then the normalized include patterns, then a shared key
\* hint equal to the key; that State is stored under the key and is the one
\* returned.
C14_MissPath ==
    \A i \in DOMAIN hist :
        hist[i].kind = "miss" =>
            LET s == hist[i].recv
                node == hist[i].ret.st
                n == Len(s.localOpts)
            IN  /\ node.op = "Local"
                /\ node.name = s.localName
                /\ Len(node.opts) = n + 2
                /\ \A j \in 1 .. n : node.opts[j] = s.localOpts[j]
                /\ node.opts[n + 1].k = "IncludePatterns"
                /\ Returned(node.opts[n + 1].v) = fixIncl(hist[i].incl)
                /\ node.opts[n + 2].k = "SharedKeyHint"
                /\ node.opts[n + 2].v = <<hist[i].key>>
                /\ node \in {built[b] : b \in DOMAIN built}
                /\ hist[i].key \in DOMAIN withincludCache
                /\ withincludCache[hist[i].key] = hist[i].ret

\* a miss on a receiver recorded with two options has returned its State
C14_Witness ==
    \E i \in DOMAIN hist :
        /\ hist[i].kind = "miss"
        /\ Len(hist[i].recv.localOpts) = 2
        /\ hist[i].fixed # <<>>
        /\ hist[i].ret \in vals

\* C15: when the library fails Marshal or GetDir, the wrapper goes straight to
\* its return with exactly the library's error, the cache untouched; the
\* return releases the lock and leaves the cache and every value as they were.
C15_ErrorPassthrough ==
    [][\A p \in Procs :
          call[p].op \in {"Marshal", "GetDir"} =>
              /\ pc[p] = "body" /\ pc'[p] # "body" /\ call'[p].liberr = "err" =>
                    /\ pc'[p] = "defer"
                    /\ out'[p] = "err"
                    /\ gmu'
                    /\ withincludCache' = withincludCache
              /\ pc[p] = "defer" /\ pc'[p] # "defer" /\ call[p].liberr = "err" =>
                    /\ pc'[p] = "idle"
                    /\ ~gmu'
                    /\ withincludCache' = withincludCache
                    /\ vals' = vals]_vars

\* GetDir is about to return the library's error while another caller waits
\* for the lock and the cache holds an entry
C15_Witness ==
    \E p, q \in Procs :
        /\ call[p].op = "GetDir"
        /\ pc[p] = "defer"
        /\ call[p].liberr = "err"
        /\ pc[q] = "lock"
        /\ withincludCache # <<>>

\* stat fails for a path: it holds a NUL byte or names no file
ProbeFails(f, path) == HasNul(path) \/ path \notin DOMAIN f \/ ~f[path].exists

\* the name and the normalized include paths of a WithInclude call: what the
\* key function probes
Probed(c) == <<c.recv.localName>> \o fixIncl(c.incl).v

\* the key in which every path is followed by its inode, or by 0 if its probe fails
KeyWithZeros(f, paths) ==
    EncodeToString(Concat([i \in 1 .. Len(paths) |->
        paths[i] \o EightBytes(IF ProbeFails(f, paths[i]) THEN 0 ELSE f[paths[i]].ino)]))

\* C16: when the probe fails for some of the paths of a WithInclude call on a
\* local source (for all of them, too), the key is computed with 0 for those
\* paths, the call goes on to return a State without an error, and its return
\* releases the lock.
C16_ProbeFailureIsZero ==
    [][\A p \in Procs :
          call[p].op = "WithInclude" /\ call[p].recv.localName # <<>>
          /\ ~fixIncl(call[p].incl).panic =>
              /\ (/\ pc[p] = "body"
                  /\ pc'[p] # "body"
                  /\ \E i \in 1 .. Len(Probed(call[p])) : ProbeFails(fs, Probed(call[p])[i]))
                 => /\ call'[p].key = KeyWithZeros(fs, Probed(call[p]))
                    /\ pc'[p] \in {"build", "defer"}
                    /\ out'[p] \in {"none", "ok"}
              /\ pc[p] = "build" /\ pc'[p] # "build" => pc'[p] = "defer"
              /\ pc'[p] = "defer" => out'[p] = "ok" /\ ret'[p].kind = "State"
              /\ pc[p] = "defer" /\ pc'[p] # "defer" => pc'[p] = "idle" /\ ~gmu']_vars

\* WithInclude(["."]) is about to return the State it built under a key
\* computed while no probed path existed
C16_Witness ==
    \E p \in Procs :
        /\ call[p].op = "WithInclude"
        /\ pc[p] = "defer"
        /\ out[p] = "ok"
        /\ call[p].fixed = InclDotStar
        /\ call[p].epoch = fsEpoch
        /\ \A i \in 1 .. Len(Probed(call[p])) : ProbeFails(fs, Probed(call[p])[i])
        /\ call[p].key = KeyWithZeros(fs, Probed(call[p]))
        /\ ret[p] = withincludCache[call[p].key]

Count(l, x) == Cardinality({i \in 1 .. Len(l) : l[i] = x})
PathsOf(l) == {l[i] : i \in 1 .. Len(l)}

\* two lists are distinct permutations of each other
Permuted(l1, l2) == l1 # l2 /\ \A x \in PathsOf(l1) \cup PathsOf(l2) : Count(l1, x) = Count(l2, x)

\* two lists hold the same paths, one of them more often in one than in the other
RepeatedDifferently(l1, l2) ==
    PathsOf(l1) = PathsOf(l2) /\ \E x \in PathsOf(l1) : Count(l1, x) # Count(l2, x)

\* two WithInclude calls that returned, on local sources of one name, with
\* normalized lists that are permutations of each other or differ in repetition
OrderOrMultiplicity(i, j) ==
    /\ i < j
    /\ hist[i].kind # "panic"
    /\ hist[j].kind # "panic"
    /\ hist[i].recv.localName = hist[j].recv.localName
    /\ Permuted(hist[i].fixed, hist[j].fixed) \/ RepeatedDifferently(hist[i].fixed, hist[j].fixed)

\* the two calls got different keys, each key has its own cache entry and its
\* own constructed node
TwoKeysTwoNodes(i, j) ==
    /\ hist[i].key # hist[j].key
    /\ hist[i].key \in DOMAIN withincludCache
    /\ hist[j].key \in DOMAIN withincludCache
    /\ withincludCache[hist[i].key] # withincludCache[hist[j].key]
    /\ BuiltFor(hist[i].key) # {}
    /\ BuiltFor(hist[j].key) # {}
    /\ BuiltFor(hist[i].key) \cap BuiltFor(hist[j].key) = {}

\* C17 as claimed: include lists that are distinct permutations of each other,
\* or that differ only in how often a path is repeated, get different keys,
\* two cache entries and two constructed nodes.
C17_OrderAndMultiplicity_Claimed ==
    \A i, j \in DOMAIN hist : OrderOrMultiplicity(i, j) => TwoKeysTwoNodes(i, j)

\* C17 as amended: the same, for include paths that hold no NUL byte (identity
\* numbers below 2^56, as all of the modelled filesystem are).
C17_OrderAndMultiplicity ==
    \A i, j \in DOMAIN hist :
        (/\ OrderOrMultiplicity(i, j)
         /\ NulFree(hist[i].recv.localName, hist[i].fixed)
         /\ NulFree(hist[j].recv.localName, hist[j].fixed))
        => TwoKeysTwoNodes(i, j)

\* WithInclude(["x", "y"]) and WithInclude(["y", "x"]) have both returned
C17_Witness ==
    \E i, j \in DOMAIN hist :
        /\ OrderOrMultiplicity(i, j)
        /\ Permuted(hist[i].fixed, hist[j].fixed)
        /\ NulFree(hist[i].recv.localName, hist[i].fixed)
        /\ NulFree(hist[j].recv.localName, hist[j].fixed)
        /\ hist[i].ret \in vals
        /\ hist[j].ret \in vals

\* a State that WithInclude built, or that a transformation made of another value
Derived(v) == IncludeOf(v.st) # {} \/ v.st.in # <<>>

\* C18: a recorded local name is carried only by what Local returned; the
\* States WithInclude builds or finds and the States the transformations
\* return carry none, and WithInclude applied to one of them returns it as it
\* is and stores nothing.
C18_OnlyLocalIsLocal ==
    /\ \A v \in vals : v.localName # <<>> =>
           v.kind = "State" /\ v.st = llbLocal(v.localName, v.localOpts) /\ ~Derived(v)
    /\ \A p \in Procs : ret[p].localName # <<>> => call[p].op = "Local"
    /\ \A k \in DOMAIN withincludCache : withincludCache[k].localName = <<>>
    /\ \A p \in Procs :
           call[p].op = "WithInclude" /\ Derived(call[p].recv) =>
               /\ pc[p] # "build"
               /\ call[p].key = <<>>
               /\ pc[p] = "defer" => ret[p] = call[p].recv /\ out[p] = "ok"

\* WithInclude(["."]) is about to return, unchanged, a State that an earlier
\* WithInclude stored in the cache
C18_Witness ==
    \E p \in Procs :
        /\ call[p].op = "WithInclude"
        /\ pc[p] = "defer"
        /\ call[p].incl = InclDot
        /\ \E k \in DOMAIN withincludCache : withincludCache[k] = call[p].recv
        /\ Cardinality(DOMAIN withincludCache) = 1
        /\ ret[p] = call[p].recv

\* a caller waits for the lock while it owns an uninvoked release function
Stuck(p) == raw[p] = "held" /\ pc[p] = "lock"

\* C19: a caller that enters a locking facade function while it owns an
\* uninvoked release function of RawState never gets the lock: it waits in
\* every later state, the lock stays held, and no other waiting caller gets it.
C19_NotReentrant ==
    [][\A p \in Procs :
          Stuck(p) => /\ pc'[p] = "lock"
                      /\ raw'[p] = "held"
                      /\ gmu'
                      /\ \A q \in Procs : pc[q] = "lock" => pc'[q] = "lock"]_vars

\* a caller has called RawState again before releasing, and another caller
\* waits behind it
C19_Witness ==
    \E p, q \in Procs :
        /\ p # q
        /\ Stuck(p)
        /\ call[p].op = "RawState"
        /\ pc[q] = "lock"
        /\ call[q].op = "WithInclude"

\* every release function of RawState is invoked at some time
EveryReleaseInvoked == \A p \in Procs : raw[p] = "held" ~> raw[p] # "held"

\* C11: if every release function of RawState is invoked at some time, every
\* caller that has entered a locking facade function gets the lock and then
\* leaves the function.
C11_NoIndefiniteBlocking ==
    EveryReleaseInvoked =>
        \A p \in Procs : /\ pc[p] = "lock" ~> pc[p] \in {"body", "idle"}
                         /\ pc[p] # "idle" ~> pc[p] = "idle"

\* File is about to return to one caller, the other having held the lock
\* through RawState and released it
C11_Witness ==
    \E p, q \in Procs :
        /\ p # q
        /\ raw[p] = "spent"
        /\ pc[q] = "defer"
        /\ call[q].op = "File"

\* C20: as long as no release function has been invoked a second time, at most
\* one caller is inside the library or the cache and the lock is held exactly
\* while one is; a second invocation either finds the lock free, which is a
\* fatal error, or frees the lock while another caller is inside.
C20_ReleaseNotBound ==
    [][/\ ~secondRelease' => C1_MutualExclusion'
       /\ \A p \in Procs :
             raw[p] = "spent" /\ raw'[p] = "twice" =>
                 \/ ~gmu /\ pc' = Fatal
                 \/ /\ gmu
                    /\ ~gmu'
                    /\ \E q \in Procs \ {p} : InLibrary(q) /\ InLibrary(q)']_vars

\* after a second invocation two callers are in delegated calls at once
C20_Witness ==
    \E p, q \in Procs :
        /\ p # q
        /\ secondRelease
        /\ pc[p] \in {"body", "build"}
        /\ pc[q] \in {"body", "build"}

====
